---- MODULE Spec2Model ----
(***************************************************************************)
(* Model of convert.py: the converter that reads every *.geojson file of a *)
(* folder in filename order, extracts a bilingual address record from each *)
(* feature, aggregates the records into a city -> area -> road -> building *)
(* hierarchy, and writes the hierarchy, sorted, as one compact JSON file.   *)
(*                                                                         *)
(* Values.  A value of the program (what json.loads produces, and what the *)
(* program computes from it) is a record [t, n, s, d]:                      *)
(*   t = "null"             None                                           *)
(*   t = "num",  n = k      the integer k                                   *)
(*   t = "str",  s = cs     the string whose code points are the sequence cs*)
(*   t = "list", d = items  a list; items[i] = <<"", value>>                *)
(*   t = "dict", d = pairs  a dict in insertion order; pairs[i] = <<key,    *)
(*                          value>>, keys are the JSON member names         *)
(* The fields a kind does not use hold 0 or <<>>, so two values are equal   *)
(* exactly when Python's == holds of them.                                  *)
(***************************************************************************)
EXTENDS Integers, Sequences, FiniteSets, TLC

JNull == [t |-> "null", n |-> 0, s |-> <<>>, d |-> <<>>]
JNum(k) == [t |-> "num", n |-> k, s |-> <<>>, d |-> <<>>]
JStr(cs) == [t |-> "str", n |-> 0, s |-> cs, d |-> <<>>]
JList(items) == [t |-> "list", n |-> 0, s |-> <<>>,
                 d |-> [i \in 1..Len(items) |-> <<"", items[i]>>]]
JDict(pairs) == [t |-> "dict", n |-> 0, s |-> <<>>, d |-> pairs]

\* The empty string "" and the empty dict {} that the code passes as defaults.
EmptyStr == JStr(<<>>)
EmptyDict == JDict(<<>>)

\* What an operator yields when the Python code raises at that point.
Raised == [t |-> "raise", n |-> 0, s |-> <<>>, d |-> <<>>]

IsStr(v) == v.t = "str"
IsDict(v) == v.t = "dict"
IsList(v) == v.t = "list"

\* Python truth value of a value: None, 0, "", [] and {} are false.
Truthy(v) ==
    CASE v.t = "str" -> v.s # <<>>
      [] v.t = "num" -> v.n # 0
      [] v.t = "list" -> v.d # <<>>
      [] v.t = "dict" -> v.d # <<>>
      [] OTHER -> FALSE

\* hash(v) succeeds: lists and dicts are unhashable, so a tuple holding one
\* cannot be a dict key or a set member.
Hashable(v) == v.t \in {"null", "num", "str"}

\* `k in cur` and `cur[k]` for a dict value.
HasKey(v, k) == \E i \in 1..Len(v.d) : v.d[i][1] = k
Lookup(v, k) == v.d[CHOOSE i \in 1..Len(v.d) : v.d[i][1] = k][2]

\* dict.get(k, default)
DictGet(v, k, default) == IF HasKey(v, k) THEN Lookup(v, k) ELSE default

RECURSIVE safe_get(_, _, _)
safe_get(cur, keys, default) ==
    IF keys = <<>> THEN cur
    ELSE IF ~IsDict(cur) \/ ~HasKey(cur, Head(keys)) THEN default
    ELSE safe_get(Lookup(cur, Head(keys)), Tail(keys), default)

\* str.isspace() of one code point (the ASCII and Latin-1 white space).
IsSpace(c) == c \in {9, 10, 11, 12, 13, 28, 29, 30, 31, 32, 133, 160}

RECURSIVE LStrip(_)
LStrip(cs) == IF cs # <<>> /\ IsSpace(Head(cs)) THEN LStrip(Tail(cs)) ELSE cs

RECURSIVE RStrip(_)
RStrip(cs) ==
    IF cs # <<>> /\ IsSpace(cs[Len(cs)]) THEN RStrip(SubSeq(cs, 1, Len(cs) - 1))
    ELSE cs

\* str.strip() on the code points of a string.
Strip(cs) == RStrip(LStrip(cs))

\* (x or "")
OrEmpty(x) == IF Truthy(x) THEN x ELSE EmptyStr

join_loc_and_name(loc, name) ==
    LET l0 == OrEmpty(loc)
        n0 == OrEmpty(name)
    IN  IF ~IsStr(l0) \/ ~IsStr(n0) THEN Raised
        ELSE LET l == Strip(l0.s)
                 n == Strip(n0.s)
             IN  IF l # <<>> /\ n # <<>> THEN JStr(l \o <<32>> \o n)
                 ELSE IF n # <<>> THEN JStr(n) ELSE JStr(l)

\* Mutant: the first non-blank value is returned as it is, not trimmed.
RECURSIVE first_nonempty_Untrimmed(_)
first_nonempty_Untrimmed(vals) ==
    IF vals = <<>> THEN EmptyStr
    ELSE IF IsStr(Head(vals)) /\ Strip(Head(vals).s) # <<>>
         THEN Head(vals)
         ELSE first_nonempty_Untrimmed(Tail(vals))

RECURSIVE first_nonempty(_)
first_nonempty(vals) ==
    IF vals = <<>> THEN EmptyStr
    ELSE IF IsStr(Head(vals)) /\ Strip(Head(vals).s) # <<>>
         THEN JStr(Strip(Head(vals).s))
         ELSE first_nonempty(Tail(vals))

\* Mutant: the village name is tried before the street name.
RoadName_VillageFirst(street_name, street_loc, vill_name, vill_loc) ==
    IF Truthy(vill_name) THEN join_loc_and_name(vill_loc, vill_name)
    ELSE IF Truthy(street_name) THEN join_loc_and_name(street_loc, street_name)
    ELSE EmptyStr

\* Lines 59-69 and 71-81: the road name of one language from its street and
\* village fields, the street first.
RoadName(street_name, street_loc, vill_name, vill_loc) ==
    IF Truthy(street_name) THEN join_loc_and_name(street_loc, street_name)
    ELSE IF Truthy(vill_name) THEN join_loc_and_name(vill_loc, vill_name)
    ELSE EmptyStr

(***************************************************************************)
(* Extractor: lines 47-97 of main, for one feature.                        *)
(***************************************************************************)

\* Mutant: the guard looks at the city and the area only.
SkipFeature_IgnoresRoad(city_cn, city_en, area_cn, area_en, road_cn, road_en) ==
    ~(Truthy(city_cn) \/ Truthy(city_en) \/ Truthy(area_cn) \/ Truthy(area_en))

\* Line 84: none of the six core fields is true.
SkipFeature(city_cn, city_en, area_cn, area_en, road_cn, road_en) ==
    ~(Truthy(city_cn) \/ Truthy(city_en) \/ Truthy(area_cn) \/ Truthy(area_en)
      \/ Truthy(road_cn) \/ Truthy(road_en))

\* The fields of one feature.  raised: the code raised while computing them
\* (feat.get on a feature that is no dict, or .strip() on a street, village
\* or location name that is no string).  skip: line 84's `continue`.
Extract(feat) ==
    IF ~IsDict(feat)
    THEN [raised |-> TRUE, skip |-> FALSE,
          city_cn |-> EmptyStr, city_en |-> EmptyStr,
          area_cn |-> EmptyStr, area_en |-> EmptyStr,
          road_cn |-> EmptyStr, road_en |-> EmptyStr,
          building_name_cn |-> EmptyStr, building_name_en |-> EmptyStr,
          building_no |-> EmptyStr]
    ELSE
    LET props == DictGet(feat, "properties", EmptyDict)
        prem == safe_get(props, <<"Address", "PremisesAddress">>, EmptyDict)
        chi == safe_get(prem, <<"ChiPremisesAddress">>, EmptyDict)
        eng == safe_get(prem, <<"EngPremisesAddress">>, EmptyDict)
        city_cn == safe_get(chi, <<"Region">>, EmptyStr)
        city_en == safe_get(eng, <<"Region">>, EmptyStr)
        area_cn == safe_get(chi, <<"ChiDistrict">>, EmptyStr)
        area_en == safe_get(eng, <<"EngDistrict">>, EmptyStr)
        road_cn == RoadName(safe_get(chi, <<"ChiStreet", "StreetName">>, EmptyStr),
                            safe_get(chi, <<"ChiStreet", "LocationName">>, EmptyStr),
                            safe_get(chi, <<"ChiVillage", "VillageName">>, EmptyStr),
                            safe_get(chi, <<"ChiVillage", "LocationName">>, EmptyStr))
        road_en == RoadName(safe_get(eng, <<"EngStreet", "StreetName">>, EmptyStr),
                            safe_get(eng, <<"EngStreet", "LocationName">>, EmptyStr),
                            safe_get(eng, <<"EngVillage", "VillageName">>, EmptyStr),
                            safe_get(eng, <<"EngVillage", "LocationName">>, EmptyStr))
        raised == road_cn = Raised \/ road_en = Raised
        building_no == first_nonempty(<<
            safe_get(chi, <<"ChiStreet", "BuildingNoFrom">>, EmptyStr),
            safe_get(eng, <<"EngStreet", "BuildingNoFrom">>, EmptyStr),
            safe_get(chi, <<"ChiVillage", "BuildingNoFrom">>, EmptyStr),
            safe_get(eng, <<"EngVillage", "BuildingNoFrom">>, EmptyStr)>>)
    IN  [raised |-> raised,
         skip |-> ~raised /\ SkipFeature(city_cn, city_en, area_cn, area_en,
                                          road_cn, road_en),
         city_cn |-> city_cn, city_en |-> city_en,
         area_cn |-> area_cn, area_en |-> area_en,
         road_cn |-> road_cn, road_en |-> road_en,
         building_name_cn |-> safe_get(chi, <<"BuildingName">>, EmptyStr),
         building_name_en |-> safe_get(eng, <<"BuildingName">>, EmptyStr),
         building_no |-> building_no]

(***************************************************************************)
(* Aggregator: lines 99-109.  A Python dict is a sequence of entries       *)
(* [k |-> key, v |-> value] in insertion order, with no key twice; a       *)
(* Python set is the sequence of its members, no member twice, in the      *)
(* order it iterates them (here the order of insertion; the program only   *)
(* ever reads a set through sorted()).  cities is a dict of dicts of dicts *)
(* of sets.                                                                *)
(***************************************************************************)

DictFind(m, k) ==
    IF \E i \in 1..Len(m) : m[i].k = k
    THEN CHOOSE i \in 1..Len(m) : m[i].k = k
    ELSE 0

DictKeys(m) == [i \in 1..Len(m) |-> m[i].k]

\* m[k], for a key that is present.
DictAt(m, k) == m[DictFind(m, k)].v

\* Mutant: m[k] = default in place of m.setdefault(k, default).
SetDefault_Assign(m, k, default) ==
    IF DictFind(m, k) = 0 THEN Append(m, [k |-> k, v |-> default])
    ELSE [m EXCEPT ![DictFind(m, k)].v = default]

\* m after m.setdefault(k, default)
SetDefault(m, k, default) ==
    IF DictFind(m, k) = 0 THEN Append(m, [k |-> k, v |-> default]) ELSE m

\* m with the value at the present key k replaced (a mutation in place of the
\* object m[k] refers to).
DictPut(m, k, v) == [m EXCEPT ![DictFind(m, k)].v = v]

\* Mutant: a list in place of the set, every entry appended.
SetAdd_Append(s, x) == Append(s, x)

\* s after s.add(x)
SetAdd(s, x) == IF \E i \in 1..Len(s) : s[i] = x THEN s ELSE Append(s, x)

\* Mutant: the guard of line 108 is dropped.
HasBuildingName_Always(r) == TRUE

\* Line 108: the feature has a building name, CN or EN.
HasBuildingName(r) == Truthy(r.building_name_cn) \/ Truthy(r.building_name_en)

KeyHashable(key) == \A i \in 1..Len(key) : Hashable(key[i])

\* Lines 99-109 on the extracted fields r: [raised, cities], cities being the
\* hierarchy as the statements executed before a raise left it.
Aggregate(cities, r) ==
    LET city_key == <<r.city_cn, r.city_en>>
        area_key == <<r.area_cn, r.area_en>>
        road_key == <<r.road_cn, r.road_en>>
        c1 == SetDefault(cities, city_key, <<>>)
        a1 == SetDefault(DictAt(c1, city_key), area_key, <<>>)
        c2 == DictPut(c1, city_key, a1)
        r1 == SetDefault(DictAt(a1, area_key), road_key, <<>>)
        c3 == DictPut(c2, city_key, DictPut(a1, area_key, r1))
        entry == <<r.building_no, OrEmpty(r.building_name_cn),
                   OrEmpty(r.building_name_en)>>
        r2 == DictPut(r1, road_key, SetAdd(DictAt(r1, road_key), entry))
        c4 == DictPut(c2, city_key, DictPut(a1, area_key, r2))
    IN  IF ~KeyHashable(city_key) THEN [raised |-> TRUE, cities |-> cities]
        ELSE IF ~KeyHashable(area_key) THEN [raised |-> TRUE, cities |-> c1]
        ELSE IF ~KeyHashable(road_key) THEN [raised |-> TRUE, cities |-> c2]
        ELSE IF ~HasBuildingName(r)
             THEN [raised |-> FALSE, cities |-> c3]
        ELSE IF ~KeyHashable(entry) THEN [raised |-> TRUE, cities |-> c3]
        ELSE [raised |-> FALSE, cities |-> c4]

\* One iteration of the loop of line 47 on the hierarchy so far.
ProcessFeature(cities, feat) ==
    LET r == Extract(feat)
    IN  IF r.raised THEN [raised |-> TRUE, cities |-> cities]
        ELSE IF r.skip THEN [raised |-> FALSE, cities |-> cities]
        ELSE Aggregate(cities, r)

(***************************************************************************)
(* Serializer: lines 112-148.                                              *)
(***************************************************************************)

\* a < b for two strings, by code point.
RECURSIVE StrLess(_, _)
StrLess(a, b) ==
    IF b = <<>> THEN FALSE
    ELSE IF a = <<>> THEN TRUE
    ELSE IF Head(a) # Head(b) THEN Head(a) < Head(b)
    ELSE StrLess(Tail(a), Tail(b))

\* a < b is defined in Python (no TypeError) for two unequal values.
Comparable(a, b) == (a.t = "str" /\ b.t = "str") \/ (a.t = "num" /\ b.t = "num")

\* a < b for two comparable values.
ValLess(a, b) == IF a.t = "str" THEN StrLess(a.s, b.s) ELSE a.n < b.n

\* The first position where two tuples of one length differ, 0 when equal:
\* Python compares tuples by the first pair of unequal items.
FirstDiff(x, y) ==
    IF \E i \in 1..Len(x) : x[i] # y[i]
    THEN CHOOSE i \in 1..Len(x) : x[i] # y[i] /\ \A j \in 1..(i - 1) : x[j] = y[j]
    ELSE 0

TupleComparable(x, y) ==
    FirstDiff(x, y) = 0 \/ Comparable(x[FirstDiff(x, y)], y[FirstDiff(x, y)])

\* Mutant: key=lambda x: x[0], the first component alone.
TupleLess_FirstOnly(x, y) == x[1] # y[1] /\ ValLess(x[1], y[1])

\* x < y for two key tuples that are comparable.
TupleLess(x, y) ==
    FirstDiff(x, y) # 0 /\ ValLess(x[FirstDiff(x, y)], y[FirstDiff(x, y)])

\* sorted() raises TypeError: any comparison sort must compare the items that
\* end up adjacent, so it raises exactly when two of the items cannot be
\* ordered.
SortRaises(xs) ==
    \E i, j \in 1..Len(xs) : ~TupleComparable(xs[i], xs[j])

\* xs (sorted) with x inserted after every item that is not greater than it.
RECURSIVE InsertSorted(_, _)
InsertSorted(xs, x) ==
    IF xs = <<>> THEN <<x>>
    ELSE IF TupleLess(x, Head(xs)) THEN <<x>> \o xs
    ELSE <<Head(xs)>> \o InsertSorted(Tail(xs), x)

\* Mutant: the keys are taken in the order the dict holds them.
Sorted_Unsorted(xs) == xs

\* sorted(xs, key=lambda x: (x[0], x[1], ...)) of a sequence of tuples, for
\* items that can be ordered: a stable sort, ascending.
RECURSIVE Sorted(_)
Sorted(xs) ==
    IF xs = <<>> THEN <<>>
    ELSE InsertSorted(Sorted(SubSeq(xs, 1, Len(xs) - 1)), xs[Len(xs)])

\* "999077", the constant zip code of line 135.
ZipCode == JStr(<<57, 57, 57, 48, 55, 55>>)

\* Lines 121-132: the output object of one road.  HasBuildings says whether
\* the object has the key "Buildings".
RoadObj(key, buildings) ==
    [RoadName |-> key[1], RoadEngName |-> key[2],
     HasBuildings |-> buildings # <<>>,
     Buildings |->
        IF buildings # <<>>
        THEN LET sorted_bs == Sorted(buildings)
             IN  [i \in 1..Len(sorted_bs) |->
                    [BuildingNo |-> sorted_bs[i][1],
                     BuildingName |-> sorted_bs[i][2],
                     BuildingEngName |-> sorted_bs[i][3]]]
        ELSE <<>>]

\* Lines 118-132: road_list of one area.
RoadList(roads) ==
    LET ks == Sorted(DictKeys(roads))
    IN  [i \in 1..Len(ks) |-> RoadObj(ks[i], DictAt(roads, ks[i]))]

\* Lines 115-139: area_list of one city.
AreaList(areas) ==
    LET ks == Sorted(DictKeys(areas))
    IN  [i \in 1..Len(ks) |->
            [ZipCode |-> ZipCode, AreaName |-> ks[i][1], AreaEngName |-> ks[i][2],
             RoadList |-> RoadList(DictAt(areas, ks[i]))]]

\* Lines 112-145: out.
BuildOut(cities) ==
    LET ks == Sorted(DictKeys(cities))
    IN  [i \in 1..Len(ks) |->
            [CityName |-> ks[i][1], CityEngName |-> ks[i][2],
             AreaList |-> AreaList(DictAt(cities, ks[i]))]]

\* Lines 112-145 raise TypeError in one of the four sorted() calls.  The loops
\* are nested, so every dict and every non-empty building set is sorted unless
\* an earlier sort raised; whether one raises does not depend on the order.
BuildRaises(cities) ==
    \/ SortRaises(DictKeys(cities))
    \/ \E c \in 1..Len(cities) :
        \/ SortRaises(DictKeys(cities[c].v))
        \/ \E a \in 1..Len(cities[c].v) :
            \/ SortRaises(DictKeys(cities[c].v[a].v))
            \/ \E r \in 1..Len(cities[c].v[a].v) :
                SortRaises(cities[c].v[a].v[r].v)

(***************************************************************************)
(* json.dumps(out, ensure_ascii=False, separators=(",", ":")), line 148:   *)
(* the text as its sequence of tokens.  A punctuation mark or a member     *)
(* name is a token [t |-> the text]; a string, number or null is the token *)
(* of its value.                                                           *)
(***************************************************************************)

Tok(p) == [t |-> p, n |-> 0, s |-> <<>>, d |-> <<>>]

\* The texts of the items of xs (each a token sequence), separated by commas.
RECURSIVE JoinComma(_)
JoinComma(xs) ==
    IF xs = <<>> THEN <<>>
    ELSE IF Len(xs) = 1 THEN xs[1]
    ELSE xs[1] \o <<Tok(",")>> \o JoinComma(Tail(xs))

DumpsBuilding(b) ==
    <<Tok("{"), Tok("BuildingNo:"), b.BuildingNo, Tok(","),
      Tok("BuildingName:"), b.BuildingName, Tok(","),
      Tok("BuildingEngName:"), b.BuildingEngName, Tok("}")>>

DumpsRoad(r) ==
    <<Tok("{"), Tok("RoadName:"), r.RoadName, Tok(","),
      Tok("RoadEngName:"), r.RoadEngName>>
    \o (IF r.HasBuildings
        THEN <<Tok(","), Tok("Buildings:"), Tok("[")>>
             \o JoinComma([i \in 1..Len(r.Buildings) |-> DumpsBuilding(r.Buildings[i])])
             \o <<Tok("]")>>
        ELSE <<>>)
    \o <<Tok("}")>>

DumpsArea(a) ==
    <<Tok("{"), Tok("ZipCode:"), a.ZipCode, Tok(","),
      Tok("AreaName:"), a.AreaName, Tok(","),
      Tok("AreaEngName:"), a.AreaEngName, Tok(","),
      Tok("RoadList:"), Tok("[")>>
    \o JoinComma([i \in 1..Len(a.RoadList) |-> DumpsRoad(a.RoadList[i])])
    \o <<Tok("]"), Tok("}")>>

DumpsCity(c) ==
    <<Tok("{"), Tok("CityName:"), c.CityName, Tok(","),
      Tok("CityEngName:"), c.CityEngName, Tok(","),
      Tok("AreaList:"), Tok("[")>>
    \o JoinComma([i \in 1..Len(c.AreaList) |-> DumpsArea(c.AreaList[i])])
    \o <<Tok("]"), Tok("}")>>

Dumps(out) ==
    <<Tok("[")>> \o JoinComma([i \in 1..Len(out) |-> DumpsCity(out[i])]) \o <<Tok("]")>>

(***************************************************************************)
(* Input: the parsed content of the *.geojson files.                       *)
(***************************************************************************)

\* A member that the JSON object does not have.
Absent == [t |-> "absent", n |-> 0, s |-> <<>>, d |-> <<>>]

\* A file whose read_text or json.loads raises (lines 37-41).
Unparsable == [t |-> "unparsable", n |-> 0, s |-> <<>>, d |-> <<>>]

\* A node of the feature built as the expected dict.
Keep == [t |-> "keep", n |-> 0, s |-> <<>>, d |-> <<>>]

\* The JSON object with the given members, the absent ones left out.
Obj(pairs) == JDict(SelectSeq(pairs, LAMBDA p : p[2] # Absent))

NodeOr(override, built) == IF override = Keep THEN built ELSE override

\* A feature of the shape of section 6 of the specification.  leaf gives the
\* value of every leaf member (Absent: no such member); node gives, for every
\* inner member, Keep (the dict of its members) or the value it holds instead.
Feature(leaf, node) ==
    LET chiStreet == Obj(<< <<"StreetName", leaf.cStreetName>>,
                            <<"LocationName", leaf.cStreetLoc>>,
                            <<"BuildingNoFrom", leaf.cStreetNo>> >>)
        engStreet == Obj(<< <<"StreetName", leaf.eStreetName>>,
                            <<"LocationName", leaf.eStreetLoc>>,
                            <<"BuildingNoFrom", leaf.eStreetNo>> >>)
        chiVillage == Obj(<< <<"VillageName", leaf.cVillName>>,
                             <<"LocationName", leaf.cVillLoc>>,
                             <<"BuildingNoFrom", leaf.cVillNo>> >>)
        engVillage == Obj(<< <<"VillageName", leaf.eVillName>>,
                             <<"LocationName", leaf.eVillLoc>>,
                             <<"BuildingNoFrom", leaf.eVillNo>> >>)
        chi == Obj(<< <<"Region", leaf.cRegion>>,
                      <<"ChiDistrict", leaf.cDistrict>>,
                      <<"ChiStreet", NodeOr(node.ChiStreet, chiStreet)>>,
                      <<"ChiVillage", NodeOr(node.ChiVillage, chiVillage)>>,
                      <<"BuildingName", leaf.cBuilding>> >>)
        eng == Obj(<< <<"Region", leaf.eRegion>>,
                      <<"EngDistrict", leaf.eDistrict>>,
                      <<"EngStreet", NodeOr(node.EngStreet, engStreet)>>,
                      <<"EngVillage", NodeOr(node.EngVillage, engVillage)>>,
                      <<"BuildingName", leaf.eBuilding>> >>)
        prem == Obj(<< <<"ChiPremisesAddress", NodeOr(node.ChiPremisesAddress, chi)>>,
                       <<"EngPremisesAddress", NodeOr(node.EngPremisesAddress, eng)>> >>)
        addr == Obj(<< <<"PremisesAddress", NodeOr(node.PremisesAddress, prem)>> >>)
        props == Obj(<< <<"Address", NodeOr(node.Address, addr)>> >>)
    IN  Obj(<< <<"properties", NodeOr(node.properties, props)>> >>)

LeafNames ==
    {"cRegion", "cDistrict", "cStreetName", "cStreetLoc", "cStreetNo",
     "cVillName", "cVillLoc", "cVillNo", "cBuilding",
     "eRegion", "eDistrict", "eStreetName", "eStreetLoc", "eStreetNo",
     "eVillName", "eVillLoc", "eVillNo", "eBuilding"}

NodeNames ==
    {"properties", "Address", "PremisesAddress", "ChiPremisesAddress",
     "EngPremisesAddress", "ChiStreet", "EngStreet", "ChiVillage", "EngVillage"}

AllKeep == [x \in NodeNames |-> Keep]
NoLeaf == [x \in LeafNames |-> Absent]

\* The file {"features": [...]}.
FeatureFile(feats) == JDict(<< <<"features", JList(feats)>> >>)

(***************************************************************************)
(* The bounded inputs.  Strings are short: "A" is <<65>>, "B" <<66>>, " "  *)
(* <<32>>, "1" <<49>>, "2" <<50>>.                                         *)
(***************************************************************************)

\* The most features a directory of DeepDirs holds, over all its files.
MaxFeatures == 3
\* The most files a directory of FileDirs holds.
MaxFiles == 3

sA == <<65>>
sB == <<66>>

\* A well-formed feature: Region, district, street name (no LocationName),
\* ChiStreet.BuildingNoFrom and BuildingName, CN and EN.
Addr(cc, ce, ac, ae, rc, re, no, bc, be) ==
    Feature([NoLeaf EXCEPT !.cRegion = JStr(cc), !.eRegion = JStr(ce),
                           !.cDistrict = JStr(ac), !.eDistrict = JStr(ae),
                           !.cStreetName = JStr(rc), !.eStreetName = JStr(re),
                           !.cStreetNo = JStr(no),
                           !.cBuilding = JStr(bc), !.eBuilding = JStr(be)],
            AllKeep)

\* The same place and building as Addr(sA, sA, sA, sA, sA, sA, <<49>>, sA, sA),
\* from village members and EngVillage.BuildingNoFrom = " 1 ".
ViaVillage ==
    Feature([NoLeaf EXCEPT !.cRegion = JStr(sA), !.eRegion = JStr(sA),
                           !.cDistrict = JStr(sA), !.eDistrict = JStr(sA),
                           !.cVillName = JStr(sA), !.eVillName = JStr(sA),
                           !.eVillNo = JStr(<<32, 49, 32>>),
                           !.cBuilding = JStr(sA), !.eBuilding = JStr(sA)],
            AllKeep)

Base == Addr(sA, sA, sA, sA, sA, sA, <<49>>, sA, sA)

\* Well-formed features: a building, a second building of its road, a
\* second road (no building name), a second area, a second city (same
\* NameCN), and a feature with no core field.
DeepFeatures ==
    { Base,
      Addr(sA, sA, sA, sA, sA, sA, <<50>>, sA, sA),
      Addr(sA, sA, sA, sA, sA, sB, <<49>>, <<>>, <<>>),
      Addr(sA, sA, sA, sB, sA, sA, <<49>>, <<>>, sB),
      Addr(sA, sB, sA, sA, sA, sA, <<>>, sB, <<>>),
      Addr(<<>>, <<>>, <<>>, <<>>, <<>>, <<>>, <<49>>, sA, sA) }

RECURSIVE SeqsUpTo(_, _)
SeqsUpTo(S, n) ==
    IF n = 0 THEN {<<>>}
    ELSE LET shorter == SeqsUpTo(S, n - 1)
         IN  shorter \cup {Append(q, x) : q \in {r \in shorter : Len(r) = n - 1}, x \in S}

\* Up to MaxFeatures well-formed features, in one file or cut into two.
DeepDirs ==
    { IF c = Len(fs) THEN <<FeatureFile(fs)>>
      ELSE <<FeatureFile(SubSeq(fs, 1, c)), FeatureFile(SubSeq(fs, c + 1, Len(fs)))>> :
        <<fs, c>> \in { <<q, k>> \in SeqsUpTo(DeepFeatures, MaxFeatures) \X (1..MaxFeatures) :
                          k <= Len(q) } }

\* Files that are not the expected document, among files that are.
FileSamples ==
    { Unparsable,
      JNull,
      JList(<<Base>>),
      EmptyDict,
      JDict(<< <<"features", JNull>> >>),
      FeatureFile(<<JNull>>),
      FeatureFile(<<ViaVillage>>),
      FeatureFile(<<Addr(sB, sA, sA, sA, sA, sA, <<49>>, sA, sA)>>),
      FeatureFile(<<Addr(sA, sA, sA, sA, sA, sA, <<49>>, sB, sA), Base>>) }

FileDirs == SeqsUpTo(FileSamples, MaxFiles)

\* Street and village names and locations, with and without white space.
NameVals == {Absent, JStr(<<>>), JStr(<<32>>), JStr(sA), JStr(<<32, 66, 32>>)}
LocVals == {Absent, JStr(<<32>>), JStr(<<32, 65>>), JStr(sB)}

\* One feature whose road members vary: every combination on one language's
\* side, and whether the other side has a street or a village name.
RoadFeatures ==
    { Feature([NoLeaf EXCEPT !.cStreetName = sn, !.cStreetLoc = sl,
                             !.cVillName = vn, !.cVillLoc = vl,
                             !.eStreetName = osn, !.eStreetLoc = JStr(sA),
                             !.eVillName = ovn, !.eVillLoc = JStr(sB)],
              AllKeep) :
        sn \in NameVals, sl \in LocVals, vn \in NameVals, vl \in LocVals,
        osn \in {Absent, JStr(sB)}, ovn \in {Absent, JStr(sA)} }
    \cup
    { Feature([NoLeaf EXCEPT !.eStreetName = sn, !.eStreetLoc = sl,
                             !.eVillName = vn, !.eVillLoc = vl,
                             !.cStreetName = osn, !.cStreetLoc = JStr(sA),
                             !.cVillName = ovn, !.cVillLoc = JStr(sB)],
              AllKeep) :
        sn \in NameVals, sl \in LocVals, vn \in NameVals, vl \in LocVals,
        osn \in {Absent, JStr(sB)}, ovn \in {Absent, JStr(sA)} }

\* BuildingNoFrom values: absent, empty, blank, " 1 ", "2", the number 7.
NoVals == {Absent, JStr(<<>>), JStr(<<32>>), JStr(<<32, 49, 32>>), JStr(<<50>>), JNum(7)}

NoFeatures ==
    { Feature([NoLeaf EXCEPT !.cRegion = JStr(sA), !.cBuilding = JStr(sA),
                             !.cStreetNo = a, !.eStreetNo = b,
                             !.cVillNo = c, !.eVillNo = d],
              AllKeep) :
        a \in NoVals, b \in NoVals, c \in NoVals, d \in NoVals }

\* Every combination of empty and non-empty core fields, with and without a
\* building name; a blank street name gives an empty road name.
CoreFeatures ==
    { Feature([NoLeaf EXCEPT !.cRegion = cc, !.eRegion = ce,
                             !.cDistrict = ac, !.eDistrict = ae,
                             !.cStreetName = rc, !.eVillName = re,
                             !.cStreetNo = JStr(<<49>>), !.eBuilding = b],
              AllKeep) :
        cc \in {JStr(<<>>), JStr(sA)}, ce \in {JStr(<<>>), JStr(sA)},
        ac \in {JStr(<<>>), JStr(sA)}, ae \in {Absent, JStr(sB)},
        rc \in {JStr(<<>>), JStr(<<32>>), JStr(sA)}, re \in {JStr(<<>>), JStr(sB)},
        b \in {JStr(<<>>), JStr(sA)} }

\* Values a member may hold in place of the expected string or dict.
OddVals ==
    {JNull, JNum(0), JNum(5), JList(<<>>), JList(<<JNum(1)>>), EmptyDict,
     JDict(<< <<"k", JNum(1)>> >>)}

\* Every leaf a string.
FullLeaf ==
    [x \in LeafNames |->
        IF x \in {"cStreetNo", "eStreetNo", "cVillNo", "eVillNo"} THEN JStr(<<49>>)
        ELSE IF x \in {"cStreetLoc", "eStreetLoc", "cVillLoc", "eVillLoc"} THEN JStr(sB)
        ELSE JStr(sA)]

\* One member of a feature holds an odd value, or an inner member is absent.
OddFeatures ==
    { Feature([base EXCEPT ![x] = v], AllKeep) :
        base \in {FullLeaf, NoLeaf}, x \in LeafNames, v \in OddVals }
    \cup
    { Feature(FullLeaf, [AllKeep EXCEPT ![x] = v]) :
        x \in NodeNames, v \in OddVals \cup {Absent, JStr(sA)} }

\* One feature of the wide families, alone or after a well-formed one.
WideDirs ==
    { <<FeatureFile(<<f>>)>> : f \in RoadFeatures \cup NoFeatures }
    \cup
    { <<FeatureFile(pre \o <<f>>)>> :
        pre \in {<<>>, <<Base>>}, f \in CoreFeatures \cup OddFeatures }

Directories == DeepDirs \cup FileDirs \cup WideDirs

(***************************************************************************)
(* The run of main (lines 29-149).                                          *)
(***************************************************************************)

\* Lines 37-45 on one file: "unparsable" (line 41's continue), "raise"
\* (data.get on content that is no dict: AttributeError, which nothing
\* catches), "nolist" (line 45's continue) or "features".
FileKind(file) ==
    IF file = Unparsable THEN "unparsable"
    ELSE IF ~IsDict(file) THEN "raise"
    ELSE IF ~IsList(DictGet(file, "features", JList(<<>>))) THEN "nolist"
    ELSE "features"

\* data.get("features", []) of a file of kind "features", as a sequence.
FeaturesOf(file) ==
    LET fs == DictGet(file, "features", JList(<<>>))
    IN  [i \in 1..Len(fs.d) |-> fs.d[i][2]]

VARIABLES
    files,      \* the parsed *.geojson files of in_dir, in filename order
    fi,         \* how many files the loop of line 36 has finished
    features,   \* the features list of the file being processed
    ki,         \* how many of its features the loop of line 47 has finished
    cities,     \* the hierarchy
    stdout,     \* the lines printed
    out,        \* the list built by lines 112-145
    written,    \* the text written to out_file, <<>> before line 148
    pc,         \* "files": line 36; "features": line 47; "done"; "raised"
    raisedAt    \* where the uncaught exception was raised: "none", "data.get"
                \* (line 43), "feature" (lines 48-109) or "sorted" (113-127)

vars == <<files, fi, features, ki, cities, stdout, out, written, pc, raisedAt>>

Init ==
    /\ files \in Directories
    /\ fi = 0
    /\ features = <<>>
    /\ ki = 0
    /\ cities = <<>>
    /\ stdout = <<>>
    /\ out = <<>>
    /\ written = <<>>
    /\ pc = "files"
    /\ raisedAt = "none"

\* Lines 37-41: the file cannot be read or parsed.
SkipUnparsable ==
    /\ pc = "files" /\ fi < Len(files)
    /\ FileKind(files[fi + 1]) = "unparsable"
    /\ stdout' = Append(stdout, <<"Skip", fi + 1>>)
    /\ fi' = fi + 1
    /\ UNCHANGED <<files, features, ki, cities, out, written, pc, raisedAt>>

\* Line 43: data.get on parsed content that is no dict raises AttributeError,
\* which nothing catches.
RaiseNotObject ==
    /\ pc = "files" /\ fi < Len(files)
    /\ FileKind(files[fi + 1]) = "raise"
    /\ pc' = "raised"
    /\ raisedAt' = "data.get"
    /\ UNCHANGED <<files, fi, features, ki, cities, stdout, out, written>>

\* Lines 43-45: "features" is no list.
SkipNoFeatureList ==
    /\ pc = "files" /\ fi < Len(files)
    /\ FileKind(files[fi + 1]) = "nolist"
    /\ fi' = fi + 1
    /\ UNCHANGED <<files, features, ki, cities, stdout, out, written, pc, raisedAt>>

\* Lines 43-47: enter the loop over the features.
OpenFeatures ==
    /\ pc = "files" /\ fi < Len(files)
    /\ FileKind(files[fi + 1]) = "features"
    /\ features' = FeaturesOf(files[fi + 1])
    /\ ki' = 0
    /\ pc' = "features"
    /\ UNCHANGED <<files, fi, cities, stdout, out, written, raisedAt>>

\* Lines 47-109: one feature.
DoFeature ==
    /\ pc = "features" /\ ki < Len(features)
    /\ LET res == ProcessFeature(cities, features[ki + 1])
       IN  /\ cities' = res.cities
           /\ IF res.raised
              THEN pc' = "raised" /\ raisedAt' = "feature" /\ ki' = ki
              ELSE pc' = pc /\ raisedAt' = raisedAt /\ ki' = ki + 1
    /\ UNCHANGED <<files, fi, features, stdout, out, written>>

\* The loop of line 47 ends: on to the next file.
EndFeatures ==
    /\ pc = "features" /\ ki = Len(features)
    /\ fi' = fi + 1
    /\ features' = <<>>
    /\ ki' = 0
    /\ pc' = "files"
    /\ UNCHANGED <<files, cities, stdout, out, written, raisedAt>>

\* Lines 111-149: build out, write it, print the completion line.
Serialize ==
    /\ pc = "files" /\ fi = Len(files)
    /\ IF BuildRaises(cities)
       THEN /\ pc' = "raised"
            /\ raisedAt' = "sorted"
            /\ UNCHANGED <<out, written, stdout>>
       ELSE /\ out' = BuildOut(cities)
            /\ written' = Dumps(BuildOut(cities))
            /\ stdout' = Append(stdout, <<"Done", 0>>)
            /\ pc' = "done"
            /\ raisedAt' = raisedAt
    /\ UNCHANGED <<files, fi, features, ki, cities>>

Next ==
    \/ SkipUnparsable
    \/ RaiseNotObject
    \/ SkipNoFeatureList
    \/ OpenFeatures
    \/ DoFeature
    \/ EndFeatures
    \/ Serialize

Spec == Init /\ [][Next]_vars

(***************************************************************************)
(* The whole run as a function of the directory, for the claims that      *)
(* compare runs: the composition of the steps above.                       *)
(***************************************************************************)

\* The loop of line 47 over feats.
RECURSIVE RunFeatures(_, _)
RunFeatures(c, feats) ==
    IF feats = <<>> THEN [raised |-> FALSE, cities |-> c]
    ELSE LET res == ProcessFeature(c, Head(feats))
         IN  IF res.raised THEN res ELSE RunFeatures(res.cities, Tail(feats))

\* The loop of line 36 over dir.
RECURSIVE RunFiles(_, _)
RunFiles(c, dir) ==
    IF dir = <<>> THEN [raised |-> FALSE, cities |-> c]
    ELSE LET kind == FileKind(Head(dir))
         IN  IF kind = "raise" THEN [raised |-> TRUE, cities |-> c]
             ELSE IF kind = "features"
             THEN LET res == RunFeatures(c, FeaturesOf(Head(dir)))
                  IN  IF res.raised THEN res ELSE RunFiles(res.cities, Tail(dir))
             ELSE RunFiles(c, Tail(dir))

\* main on dir: how it ends, the hierarchy and the text written.
RunMain(dir) ==
    LET res == RunFiles(<<>>, dir)
    IN  IF res.raised \/ BuildRaises(res.cities)
        THEN [status |-> "raised", cities |-> res.cities, written |-> <<>>]
        ELSE [status |-> "done", cities |-> res.cities,
              written |-> Dumps(BuildOut(res.cities))]

(***************************************************************************)
(* Vocabulary of the claims.                                               *)
(***************************************************************************)

Range(q) == {q[i] : i \in 1..Len(q)}

\* Python's == on two hierarchies: dicts and sets compare without order.
RoadsEq(r1, r2) ==
    /\ Range(DictKeys(r1)) = Range(DictKeys(r2))
    /\ \A k \in Range(DictKeys(r1)) : Range(DictAt(r1, k)) = Range(DictAt(r2, k))

AreasEq(a1, a2) ==
    /\ Range(DictKeys(a1)) = Range(DictKeys(a2))
    /\ \A k \in Range(DictKeys(a1)) : RoadsEq(DictAt(a1, k), DictAt(a2, k))

HierEq(c1, c2) ==
    /\ Range(DictKeys(c1)) = Range(DictKeys(c2))
    /\ \A k \in Range(DictKeys(c1)) : AreasEq(DictAt(c1, k), DictAt(c2, k))

\* q reordered by the permutation p of its indices.
Reorder(q, p) == [i \in 1..Len(q) |-> q[p[i]]]

\* The file with its features reordered by p (a file without a features
\* list is left as it is).
WithFeatureOrder(file, p) ==
    IF FileKind(file) # "features" \/ ~HasKey(file, "features") THEN file
    ELSE JDict([i \in 1..Len(file.d) |->
                  IF file.d[i][1] = "features"
                  THEN <<"features", JList(Reorder(FeaturesOf(file), p))>>
                  ELSE file.d[i]])

\* The orders of the features of a file.
FeatureOrders(file) ==
    IF FileKind(file) # "features" THEN {<<>>}
    ELSE Permutations(1..Len(FeaturesOf(file)))

\* The run on dir ends as the record res says: the same way, and when it
\* finishes, with an equal hierarchy and the identical text.
SameResult(dir, res) ==
    LET r == RunMain(dir)
    IN  /\ r.status = res.status
        /\ res.status = "done" =>
              HierEq(r.cities, res.cities) /\ r.written = res.written

\* SameResult holds of dir with the features of each of its files from the
\* i-th on in every order.
RECURSIVE ForAllFeatureOrders(_, _, _)
ForAllFeatureOrders(dir, i, res) ==
    IF i > Len(dir) THEN SameResult(dir, res)
    ELSE \A q \in FeatureOrders(dir[i]) :
            ForAllFeatureOrders([dir EXCEPT ![i] = WithFeatureOrder(dir[i], q)],
                                i + 1, res)

\* SameResult holds of dir with its files in every order and the features of
\* each in every order.
ForAllReorderings(dir, res) ==
    \A p \in Permutations(1..Len(dir)) : ForAllFeatureOrders(Reorder(dir, p), 1, res)

\* The features of the files of dir that reach the loop of line 47.
RECURSIVE AllFeatures(_)
AllFeatures(dir) ==
    IF dir = <<>> THEN <<>>
    ELSE (IF FileKind(Head(dir)) = "features" THEN FeaturesOf(Head(dir)) ELSE <<>>)
         \o AllFeatures(Tail(dir))

\* The file is not the expected document: it cannot be parsed, or what is
\* parsed is not a JSON object.
NotExpected(file) == file = Unparsable \/ ~IsDict(file)

(***************************************************************************)
(* The claims.                                                             *)
(***************************************************************************)

\* C1 (as claimed): a file that cannot be parsed as the expected document is
\* skipped with a diagnostic line and never aborts the run: no run ends in
\* the exception of line 43, every such file the loop has passed has its
\* "Skip" line, and a finished run holds what the other files contribute.
C1_MalformedFileSkipped ==
    /\ raisedAt # "data.get"
    /\ \A i \in 1..fi : NotExpected(files[i]) => <<"Skip", i>> \in Range(stdout)
    /\ pc = "done" =>
        HierEq(cities, RunFiles(<<>>, SelectSeq(files, LAMBDA f : ~NotExpected(f))).cities)

\* C2 (as claimed): processing a feature (a JSON object) never raises,
\* whatever its members hold.
C2_FeatureNeverRaises ==
    raisedAt = "feature" => ~IsDict(features[ki + 1])

Member(feat, path) ==
    safe_get(feat, <<"properties", "Address", "PremisesAddress">> \o path, EmptyStr)

\* The feature the loop of line 47 has just finished (when ki >= 1).
LastFeature == features[ki]

\* A field is empty: the empty string, or a value Python takes as false.
Empty(v) == ~Truthy(v)

\* The six core fields of the record r are all empty.
CoreAllEmpty(r) ==
    /\ Empty(r.city_cn) /\ Empty(r.city_en)
    /\ Empty(r.area_cn) /\ Empty(r.area_en)
    /\ Empty(r.road_cn) /\ Empty(r.road_en)

\* The hierarchy c has the road of the record r under r's city and area.
HasRoadOf(c, r) ==
    /\ <<r.city_cn, r.city_en>> \in Range(DictKeys(c))
    /\ LET areas == DictAt(c, <<r.city_cn, r.city_en>>)
       IN  /\ <<r.area_cn, r.area_en>> \in Range(DictKeys(areas))
           /\ <<r.road_cn, r.road_en>>
                \in Range(DictKeys(DictAt(areas, <<r.area_cn, r.area_en>>)))

\* The building set of r's road in c (when HasRoadOf(c, r)).
BuildingsOf(c, r) ==
    DictAt(DictAt(DictAt(c, <<r.city_cn, r.city_en>>), <<r.area_cn, r.area_en>>),
           <<r.road_cn, r.road_en>>)

\* C4: skip rule.  A step of the loop of line 47 that finishes a feature
\* whose six core fields are all empty leaves the hierarchy as it was; one
\* that finishes any other feature leaves its (city, area, road) entry in
\* the hierarchy.
C4_SkipRule ==
    [][ (pc = "features" /\ pc' = "features" /\ ki' = ki + 1) =>
          LET r == Extract(features[ki + 1])
          IN  IF CoreAllEmpty(r) THEN cities' = cities
              ELSE HasRoadOf(cities', r) ]_vars

\* C4's case: on a hierarchy that is not empty, the loop has just skipped a
\* feature that has a building name and a building number.
C4_Witness ==
    /\ pc = "features" /\ ki >= 1
    /\ cities # <<>>
    /\ LET r == Extract(LastFeature)
       IN  /\ CoreAllEmpty(r)
           /\ Truthy(r.building_name_en)
           /\ Truthy(r.building_no)
           /\ ~HasRoadOf(cities, r)

\* The trimmed text of a name or location, "" for a value that is false.
Trimmed(v) == IF IsStr(v) THEN Strip(v.s) ELSE <<>>

\* LocationName joined with the name: a space between them unless one is
\* empty.
Joined(loc, name) ==
    IF Trimmed(loc) = <<>> THEN JStr(Trimmed(name))
    ELSE IF Trimmed(name) = <<>> THEN JStr(Trimmed(loc))
    ELSE JStr(Trimmed(loc) \o <<32>> \o Trimmed(name))

\* The road name of one language as the claim gives it: from the street
\* members alone when there is a street name, from the village members
\* only when there is none, and empty when there is neither.
PrecedenceHolds(road, side, street, village) ==
    LET sn == Member(LastFeature, <<side, street, "StreetName">>)
        sl == Member(LastFeature, <<side, street, "LocationName">>)
        vn == Member(LastFeature, <<side, village, "VillageName">>)
        vl == Member(LastFeature, <<side, village, "LocationName">>)
    IN  /\ Truthy(sn) => road = Joined(sl, sn)
        /\ ~Truthy(sn) /\ Truthy(vn) => road = Joined(vl, vn)
        /\ ~Truthy(sn) /\ ~Truthy(vn) => road = EmptyStr

\* C5: road-name precedence.  For the feature the loop has just finished,
\* the CN road name and the EN road name each follow the precedence, and a
\* feature that is not skipped is filed under the road so named.
C5_RoadPrecedence ==
    (pc = "features" /\ ki >= 1) =>
        LET r == Extract(LastFeature)
        IN  /\ PrecedenceHolds(r.road_cn, "ChiPremisesAddress", "ChiStreet", "ChiVillage")
            /\ PrecedenceHolds(r.road_en, "EngPremisesAddress", "EngStreet", "EngVillage")
            /\ ~CoreAllEmpty(r) => HasRoadOf(cities, r)

\* C5's case: the finished feature has a street name and a village name that
\* would give different road names, in CN and in EN, and is filed under the
\* road named from the street.
C5_Witness ==
    /\ pc = "features" /\ ki >= 1
    /\ \A side \in {<<"ChiPremisesAddress", "ChiStreet", "ChiVillage">>,
                    <<"EngPremisesAddress", "EngStreet", "EngVillage">>} :
        LET sn == Member(LastFeature, <<side[1], side[2], "StreetName">>)
            sl == Member(LastFeature, <<side[1], side[2], "LocationName">>)
            vn == Member(LastFeature, <<side[1], side[3], "VillageName">>)
            vl == Member(LastFeature, <<side[1], side[3], "LocationName">>)
        IN  Truthy(sn) /\ Truthy(vn) /\ Joined(sl, sn) # Joined(vl, vn)
                       /\ Truthy(Joined(vl, vn))
    /\ HasRoadOf(cities, Extract(LastFeature))
    /\ Extract(LastFeature).road_cn # Extract(LastFeature).road_en

\* The four BuildingNoFrom members of a feature, in the order of the claim.
BuildingNoMembers(feat) ==
    << Member(feat, <<"ChiPremisesAddress", "ChiStreet", "BuildingNoFrom">>),
       Member(feat, <<"EngPremisesAddress", "EngStreet", "BuildingNoFrom">>),
       Member(feat, <<"ChiPremisesAddress", "ChiVillage", "BuildingNoFrom">>),
       Member(feat, <<"EngPremisesAddress", "EngVillage", "BuildingNoFrom">>) >>

\* The members that are strings with something left after trimming.
NonBlank(vals) == {i \in 1..Len(vals) : IsStr(vals[i]) /\ Strip(vals[i].s) # <<>>}

\* The trimmed form of the first of them, "" when there is none.
ExpectedBuildingNo(vals) ==
    IF NonBlank(vals) = {} THEN EmptyStr
    ELSE LET first == CHOOSE i \in NonBlank(vals) : \A j \in NonBlank(vals) : i <= j
         IN  JStr(Strip(vals[first].s))

\* C6: building number.  For the feature the loop has just finished and not
\* skipped, the building number is the trimmed first non-blank one of the
\* four members, or "", and it is the number of the building entry the
\* feature is recorded with.
C6_BuildingNo ==
    (pc = "features" /\ ki >= 1 /\ ~CoreAllEmpty(Extract(LastFeature))) =>
        LET r == Extract(LastFeature)
            no == ExpectedBuildingNo(BuildingNoMembers(LastFeature))
        IN  /\ r.building_no = no
            /\ HasBuildingName(r) =>
                 <<no, OrEmpty(r.building_name_cn), OrEmpty(r.building_name_en)>>
                    \in Range(BuildingsOf(cities, r))

\* C6's case: the first member is blank, the second is no string, the third
\* needs trimming and the fourth is another number; the building is
\* recorded with the third, trimmed.
C6_Witness ==
    /\ pc = "features" /\ ki >= 1
    /\ LET vals == BuildingNoMembers(LastFeature)
           r == Extract(LastFeature)
       IN  /\ vals[1] = JStr(<<32>>)
           /\ ~IsStr(vals[2])
           /\ vals[3] = JStr(<<32, 49, 32>>)
           /\ vals[4] = JStr(<<50>>)
           /\ HasRoadOf(cities, r)
           /\ \E b \in Range(BuildingsOf(cities, r)) : b[1] = JStr(<<49>>)

\* The records of the features of dir that reach line 99: the features that
\* are neither skipped nor raise.
Filed(dir) ==
    { r \in { Extract(f) : f \in Range(AllFeatures(dir)) } : ~r.raised /\ ~r.skip }

\* The building entries that the filed records give the road of the keys
\* ck, ak, rk: one for every distinct (BuildingNo, NameCN, NameEN) of a
\* feature of that road that has a building name.
EntriesOf(filed, ck, ak, rk) ==
    { <<r.building_no, OrEmpty(r.building_name_cn), OrEmpty(r.building_name_en)>> :
        r \in { q \in filed :
                  /\ <<q.city_cn, q.city_en>> = ck
                  /\ <<q.area_cn, q.area_en>> = ak
                  /\ <<q.road_cn, q.road_en>> = rk
                  /\ (Truthy(q.building_name_cn) \/ Truthy(q.building_name_en)) } }

\* The roads of a hierarchy: <<city key, area key, road key, building set>>.
RoadsIn(c) ==
    UNION { UNION { { <<c[i].k, c[i].v[j].k, c[i].v[j].v[l].k, c[i].v[j].v[l].v>> :
                        l \in 1..Len(c[i].v[j].v) } :
                    j \in 1..Len(c[i].v) } :
            i \in 1..Len(c) }

\* The road objects of the output: <<city key, area key, road object>>.
RoadObjsIn(o) ==
    UNION { UNION { { << <<o[i].CityName, o[i].CityEngName>>,
                         <<o[i].AreaList[j].AreaName, o[i].AreaList[j].AreaEngName>>,
                         o[i].AreaList[j].RoadList[l] >> :
                        l \in 1..Len(o[i].AreaList[j].RoadList) } :
                    j \in 1..Len(o[i].AreaList) } :
            i \in 1..Len(o) }

NoDuplicates(q) == \A i, j \in 1..Len(q) : q[i] = q[j] => i = j

BuildingTriple(b) == <<b.BuildingNo, b.BuildingName, b.BuildingEngName>>

\* C7: dedup.  No road's building set ever holds an entry twice, and in the
\* output of a finished run the Buildings of a road hold exactly one entry
\* for each distinct triple its features yield.
C7_Dedup ==
    /\ pc # "raised" => \A rd \in RoadsIn(cities) : NoDuplicates(rd[4])
    /\ pc = "done" =>
        LET filed == Filed(files)
        IN  \A ro \in RoadObjsIn(out) :
                /\ NoDuplicates(ro[3].Buildings)
                /\ { BuildingTriple(ro[3].Buildings[i]) : i \in 1..Len(ro[3].Buildings) }
                     = EntriesOf(filed, ro[1], ro[2], <<ro[3].RoadName, ro[3].RoadEngName>>)

\* C7's case: a finished run in which two different features, in two files,
\* yield the same triple under the same road, and the road's Buildings in
\* the output hold that triple once.
C7_Witness ==
    /\ pc = "done"
    /\ Len(files) = 2
    /\ \E f \in Range(FeaturesOf(files[1])), g \in Range(FeaturesOf(files[2])) :
        /\ f # g
        /\ Extract(f) = Extract(g)
        /\ HasBuildingName(Extract(f))
        /\ \E ro \in RoadObjsIn(out) :
            /\ ro[1] = <<Extract(f).city_cn, Extract(f).city_en>>
            /\ Cardinality({ i \in 1..Len(ro[3].Buildings) :
                    BuildingTriple(ro[3].Buildings[i])
                      = <<Extract(f).building_no,
                          OrEmpty(Extract(f).building_name_cn),
                          OrEmpty(Extract(f).building_name_en)>> }) = 1

\* C8: a building entry is in a road's set only if its CN or EN name is
\* non-empty; in the output of a finished run every road of a filed feature
\* is present, has the key "Buildings" exactly when one of its features has
\* a building name, and never has an empty Buildings array.
C8_NamedBuildingsOnly ==
    /\ pc # "raised" =>
        \A rd \in RoadsIn(cities) :
            \A i \in 1..Len(rd[4]) : Truthy(rd[4][i][2]) \/ Truthy(rd[4][i][3])
    /\ pc = "done" =>
        LET filed == Filed(files)
            objs == RoadObjsIn(out)
        IN  /\ \A r \in filed :
                \E ro \in objs :
                    /\ ro[1] = <<r.city_cn, r.city_en>>
                    /\ ro[2] = <<r.area_cn, r.area_en>>
                    /\ <<ro[3].RoadName, ro[3].RoadEngName>> = <<r.road_cn, r.road_en>>
            /\ \A ro \in objs :
                /\ ro[3].HasBuildings <=> ro[3].Buildings # <<>>
                /\ ro[3].HasBuildings <=>
                     EntriesOf(filed, ro[1], ro[2],
                               <<ro[3].RoadName, ro[3].RoadEngName>>) # {}

\* C8's case: a finished run with a road reached only by features that have
\* a building number and no building name: the road is in the output
\* without the key "Buildings".
C8_Witness ==
    /\ pc = "done"
    /\ \E ro \in RoadObjsIn(out) :
        /\ ~ro[3].HasBuildings
        /\ \E r \in Filed(files) :
            /\ <<ro[1], ro[2], <<ro[3].RoadName, ro[3].RoadEngName>> >>
                 = << <<r.city_cn, r.city_en>>, <<r.area_cn, r.area_en>>,
                      <<r.road_cn, r.road_en>> >>
            /\ Truthy(r.building_no)
    /\ \E ro \in RoadObjsIn(out) : ro[3].HasBuildings

\* x < y for two tuples of one length: the first components that differ are
\* in ascending order.
RECURSIVE LexLess(_, _)
LexLess(x, y) ==
    /\ x # <<>>
    /\ IF Head(x) = Head(y) THEN LexLess(Tail(x), Tail(y))
       ELSE Comparable(Head(x), Head(y)) /\ ValLess(Head(x), Head(y))

\* Strictly ascending: in order, and no two items equal.
Ascending(keys) == \A i \in 1..(Len(keys) - 1) : LexLess(keys[i], keys[i + 1])

\* C9: deterministic ordering.  In the output of a finished run the cities,
\* the areas of each city and the roads of each area are strictly ascending
\* by (NameCN, NameEN), and the buildings of each road strictly ascending
\* by (BuildingNo, BuildingNameCN, BuildingNameEN).
C9_SortedOutput ==
    pc = "done" =>
        /\ Ascending([i \in 1..Len(out) |-> <<out[i].CityName, out[i].CityEngName>>])
        /\ \A i \in 1..Len(out) :
            LET al == out[i].AreaList
            IN  /\ Ascending([j \in 1..Len(al) |-> <<al[j].AreaName, al[j].AreaEngName>>])
                /\ \A j \in 1..Len(al) :
                    LET rl == al[j].RoadList
                    IN  /\ Ascending([l \in 1..Len(rl) |->
                                        <<rl[l].RoadName, rl[l].RoadEngName>>])
                        /\ \A l \in 1..Len(rl) :
                            Ascending([b \in 1..Len(rl[l].Buildings) |->
                                         BuildingTriple(rl[l].Buildings[b])])

\* C9's case: a finished run whose output has two cities with one NameCN
\* and a road with two buildings, the hierarchy having met the cities and
\* the buildings in the opposite order.
C9_Witness ==
    /\ pc = "done"
    /\ Len(out) = 2
    /\ out[1].CityName = out[2].CityName
    /\ cities[1].k = <<out[2].CityName, out[2].CityEngName>>
    /\ \E rd \in RoadsIn(cities) :
        /\ Len(rd[4]) = 2
        /\ LexLess(rd[4][2], rd[4][1])

\* Every key of the hierarchy c is a key of d, with its buildings.
Extends(c, d) ==
    \A rd \in RoadsIn(c) :
        \E re \in RoadsIn(d) :
            /\ <<rd[1], rd[2], rd[3]>> = <<re[1], re[2], re[3]>>
            /\ Range(rd[4]) \subseteq Range(re[4])

NoEmptyLevel(c) ==
    \A i \in 1..Len(c) :
        /\ c[i].v # <<>>
        /\ \A j \in 1..Len(c[i].v) : c[i].v[j].v # <<>>

\* The features the run has finished so far: those of the files the loop of
\* line 36 has passed, and the first ki of the file it is in.
Finished ==
    AllFeatures(SubSeq(files, 1, fi)) \o SubSeq(features, 1, ki)

\* The records of the finished features that reached line 99.
FiledSoFar ==
    { r \in { Extract(f) : f \in Range(Finished) } : ~r.raised /\ ~r.skip }

\* C10's invariant: after any prefix of the features, every city of the
\* hierarchy has an area and every area a road, every (city, area, road) of
\* it is that of a feature of the prefix that was not skipped, and the
\* output of a finished run has no empty AreaList or RoadList and holds
\* those roads only.
C10_Inv ==
    /\ pc # "raised" =>
        /\ NoEmptyLevel(cities)
        /\ \A rd \in RoadsIn(cities) :
            \E r \in (IF cities = <<>> THEN {} ELSE FiledSoFar) :
                /\ rd[1] = <<r.city_cn, r.city_en>>
                /\ rd[2] = <<r.area_cn, r.area_en>>
                /\ rd[3] = <<r.road_cn, r.road_en>>
    /\ pc = "done" =>
        /\ \A i \in 1..Len(out) :
            /\ out[i].AreaList # <<>>
            /\ \A j \in 1..Len(out[i].AreaList) : out[i].AreaList[j].RoadList # <<>>
        /\ { <<ro[1], ro[2], <<ro[3].RoadName, ro[3].RoadEngName>> >> :
               ro \in RoadObjsIn(out) }
             = { <<rd[1], rd[2], rd[3]>> : rd \in RoadsIn(cities) }
        /\ Len(out) = Len(cities)

\* C10: the invariant holds in every state, and no step that does not raise
\* removes or changes an entry of the hierarchy: entries are only added.
C10_NoEmptyLevelAddOnly ==
    /\ []C10_Inv
    /\ [][pc' # "raised" => Extends(cities, cities')]_vars

\* C10's case: after a skipped feature, the loop has filed a feature under
\* a city and an area the hierarchy already had, adding a road beside the
\* one that was there.
C10_Witness ==
    /\ pc = "features" /\ ki >= 2
    /\ \E i \in 1..ki : Extract(features[i]).skip
    /\ Len(cities) = 1
    /\ Len(cities[1].v) = 1
    /\ Len(cities[1].v[1].v) = 2
    /\ cities[1].v[1].v[1].v # <<>>

====
